---------------------------- MODULE Spec2Model ----------------------------
(***************************************************************************)
(* Model of the Uriscan inference dashboard (Streamlit front end).         *)
(*                                                                         *)
(* Three specifications share this module:                                 *)
(*   SpecRows   - the row shaping code (tables, summary counts, CSV        *)
(*                export) applied to every parameter list / submission     *)
(*                list of the bounded input domain;                        *)
(*   SpecClient - each method of InferenceAPIClient called once, on every  *)
(*                transport outcome, with the handler of the calling page; *)
(*   Spec       - one browser session: script runs of main(), the API      *)
(*                client calls they make and the session state they leave. *)
(*                                                                         *)
(* JSON values are tagged tuples so that a missing key, null, a boolean    *)
(* and a number stay distinct: <<"absent">>, <<"null">>, <<"true">>,       *)
(* <<"false">>, <<"num", n>>.  Probabilities are carried in units of       *)
(* 1e-5, percentages in tenths of a percent.                               *)
(***************************************************************************)
EXTENDS Integers, Sequences, FiniteSets, TLC

\* ------------------------------------------------------------------ bounds
MaxParams == 2
MaxSubs == 2
PctMax == 1000
MaxPage == 2

\* ------------------------------------------------------------- JSON values
JAbsent == <<"absent">>
JNull == <<"null">>
JTrue == <<"true">>
JFalse == <<"false">>
JNum(n) == <<"num", n>>

\* dict.get(key, default): the default only replaces a missing key
Get(v, default) == IF v = JAbsent THEN default ELSE v

\* dict.get(key): a missing key reads as None
GetNone(v) == IF v = JAbsent THEN JNull ELSE v

\* Python truthiness of a JSON value
Truthy(v) ==
    CASE v = JTrue -> TRUE
      [] v = JFalse -> FALSE
      [] v = JNull -> FALSE
      [] v = JAbsent -> FALSE
      [] OTHER -> v[2] # 0

\* `x is True`
IsTrue(v) == v = JTrue

\* `x is False`
IsFalse(v) == v = JFalse

\* --------------------------------------------------------- display symbols
BadgeAgree == "agree"                   \* the check-mark badge
BadgeDisagree == "disagree"             \* the cross badge
BadgeNoGroundTruth == "no-ground-truth" \* the warning badge (legacy app only)
BadgeError == "error"                   \* the red-circle badge (legacy app only)
BadgeDash == "-"                        \* the literal "-" cell

IndicatorHigh == "high"                 \* green circle
IndicatorMedium == "medium"             \* yellow circle
IndicatorLow == "low"                   \* red circle

StyleHigh == "high"                     \* background #d4edda
StyleMedium == "medium"                 \* background #fff3cd
StyleLow == "low"                       \* background #f8d7da

\* text of a number printed with d decimals; v is in units of 1e-5 and the
\* input domain holds no value that lies exactly between two printed values
Pow10(k) == IF k = 0 THEN 1 ELSE IF k = 1 THEN 10 ELSE IF k = 2 THEN 100
            ELSE IF k = 3 THEN 1000 ELSE IF k = 4 THEN 10000 ELSE 100000
Fixed(v, d) == <<"fixed", d, (v + (Pow10(5 - d) \div 2)) \div Pow10(5 - d)>>
DashText == <<"-">>

\* --------------------------------------------------------------- the inputs
Statuses == {"success", "error"}
Agreements == {JTrue, JFalse, JNull, JAbsent}
Probabilities == {JAbsent, JNum(81200), JNum(81234)}

ParamCore == [status : Statuses, agreement : Agreements, probability : Probabilities]

\* parameter lists of length n; the i-th parameter is named <<"P", i>>
ParamListsOfLen(n) ==
    { [i \in 1..n |-> [name |-> <<"P", i>>,
                       status |-> f[i].status,
                       agreement |-> f[i].agreement,
                       probability |-> f[i].probability]] : f \in [1..n -> ParamCore] }

ParamLists == UNION { ParamListsOfLen(n) : n \in 0..MaxParams }


\* submissions as the overview table reads them; the i-th is named <<"S", i>>.
\* Every percentage 0.0 .. 100.0 occurs in a one-row list, the tier boundaries
\* also occur in longer lists.
PctBoundaries == {0, 80 * 10 - 1, 80 * 10, 50 * 10 - 1, 50 * 10, PctMax}
PctValues(n) == IF n = 1 THEN {JAbsent, JNull} \cup {JNum(v) : v \in 0..PctMax}
                ELSE {JAbsent, JNull} \cup {JNum(v) : v \in PctBoundaries}
SubmissionListsOfLen(n) ==
    { [i \in 1..n |-> [submission_id |-> <<"S", i>>, overall_agreement_pct |-> f[i]]]
        : f \in [1..n -> PctValues(n)] }
SubmissionLists == UNION { SubmissionListsOfLen(n) : n \in 0..MaxSubs }

VARIABLES
    shaper,          \* which row shaping function ran last ("none" at start)
    parameters,      \* its input, a list of ParameterResult
    submissions,     \* its input, a list of tracked submissions
    table_data,      \* the rows it produced
    summary_counts,  \* <<agreed, disagreed>> of the detail table, <<>> if not shown
    message,         \* the message shown instead of a table, "" if none
    columns          \* the column headers of the table or CSV produced, in order

rowVars == <<shaper, parameters, submissions, table_data, summary_counts, message,
             columns>>

VARIABLES
    session_state,   \* st.session_state
    widget_state,    \* the widget values Streamlit keeps between runs
    calls,           \* the client calls of the last script run, in order
    messages,        \* the messages the last run showed
    rerun,           \* the last run ended in st.rerun(): another run is due
    unhandled,       \* an exception escaped the last run
    health_banner,   \* the sidebar's API status of the last run
    rendered,        \* the page renderer the last run invoked
    shown_result,    \* the InferenceResult the last run displayed
    shown_detail,    \* the SubmissionDetail the last run displayed
    shown_rows,      \* the rows of the table the last run displayed
    controls,        \* the enabled widgets the last run drew besides the sidebar
    trigger,         \* the interaction that started the last run
    pagination       \* the pagination object the last run received, Unset if none

sessVars == <<session_state, widget_state, calls, messages, rerun, unhandled,
              health_banner, rendered, shown_result, shown_detail, shown_rows, controls,
              trigger, pagination>>

VARIABLES
    request,         \* the call to make
    response         \* what the call gave: the query sent, the result, the signal

clientVars == <<request, response>>

\* ------------------------------------------------- formatting utilities
\* utils/formatting.py get_agreement_badge: "check" if agreement else "cross"
get_agreement_badge(agreement) ==
    IF Truthy(agreement) THEN BadgeAgree ELSE BadgeDisagree

\* utils/formatting.py get_agreement_indicator; pct in tenths of a percent
get_agreement_indicator_StrictHigh(agreement_pct) ==
    IF agreement_pct[2] > 80 * 10 THEN IndicatorHigh
    ELSE IF agreement_pct[2] >= 50 * 10 THEN IndicatorMedium
    ELSE IndicatorLow

get_agreement_indicator(agreement_pct) ==
    IF agreement_pct[2] >= 80 * 10 THEN IndicatorHigh
    ELSE IF agreement_pct[2] >= 50 * 10 THEN IndicatorMedium
    ELSE IndicatorLow

\* utils/formatting.py get_agreement_indicator: `None >= 80` raises TypeError
get_agreement_indicator_raises(agreement_pct) == agreement_pct = JNull

\* components/tables.py style_agreement (the cell colouring of Agreement %)
style_agreement(val) ==
    IF val[2] >= 80 * 10 THEN StyleHigh
    ELSE IF val[2] >= 50 * 10 THEN StyleMedium
    ELSE StyleLow

\* ------------------------------------------------------------ row shaping
\* pages/inference.py: one row of the Parameter Results table
InferenceRow(param) ==
    IF param.status = "success"
    THEN [Parameter |-> Get(param.name, <<"N/A">>),
          Agreement |-> get_agreement_badge(Get(param.agreement, JFalse)),
          Probability |-> Fixed(Get(param.probability, JNum(0))[2], 3)]
    ELSE [Parameter |-> Get(param.name, <<"N/A">>),
          Agreement |-> BadgeDash,
          Probability |-> DashText]

\* a variant that leaves the failed parameters out of the table
params_data_SkipsErrorRows(params) ==
    LET Succeeded(param) == param.status = "success"
        kept == SelectSeq(params, Succeeded)
    IN  [i \in 1..Len(kept) |-> InferenceRow(kept[i])]

params_data(params) == [i \in 1..Len(params) |-> InferenceRow(params[i])]

\* components/detail_view.py: one row of the detail table, as displayed
\* (Probability goes through the styler's '{:.4f}')
highlight_disagreement(badge) ==
    IF badge = BadgeDisagree THEN "#f8d7da" ELSE "#d4edda"

DetailRow(param) ==
    [Agreement |-> get_agreement_badge(GetNone(param.agreement)),
     Parameter |-> Get(param.name, <<"N/A">>),
     Probability |-> Fixed(Get(param.probability, JNum(0))[2], 4),
     Background |-> highlight_disagreement(get_agreement_badge(GetNone(param.agreement)))]

detail_table_data(params) == [i \in 1..Len(params) |-> DetailRow(params[i])]

\* components/detail_view.py: the summary counts under the detail table
CountTrue(params) == Cardinality({i \in 1..Len(params) : IsTrue(GetNone(params[i].agreement))})
SummaryCounts(params) ==
    LET total == Len(params)
        agreed == CountTrue(params)
    IN  <<agreed, total - agreed>>

\* components/detail_view.py render_disagreements_only: the parameters whose
\* agreement `is False`, and one expander of the tab
disagreements(params) ==
    LET Disagrees(p) == IsFalse(GetNone(p.agreement))
    IN  SelectSeq(params, Disagrees)

DisagreementRow(param) ==
    [Parameter |-> Get(param.name, <<"Unknown">>),
     Probability |-> Fixed(Get(param.probability, JNum(0))[2], 3)]

\* src/app.py prepare_results_dataframe: param['agreement'] and
\* param['probability'] raise KeyError on a missing key of a non-error row
LegacyRaises(params) ==
    \E i \in 1..Len(params) :
        /\ params[i].status # "error"
        /\ (params[i].agreement = JAbsent \/ params[i].probability = JAbsent)

\* src/app.py prepare_results_dataframe: one row
LegacyRow(param) ==
    IF param.status = "error"
    THEN [Parameter |-> param.name, Agreement |-> BadgeError, Probability |-> DashText]
    ELSE [Parameter |-> param.name,
          Agreement |-> IF IsTrue(param.agreement) THEN BadgeAgree
                        ELSE IF IsFalse(param.agreement) THEN BadgeDisagree
                        ELSE BadgeNoGroundTruth,
          Probability |-> Fixed(param.probability[2], 3)]

\* pandas to_csv of one cell: None is written as the empty field
CsvCell(v) ==
    CASE v = JTrue -> <<"True">>
      [] v = JFalse -> <<"False">>
      [] v = JNull -> <<"">>
      [] OTHER -> <<"repr", v[2]>>

\* pages/detail.py Export Details: one CSV row
ExportRow(param) ==
    [Parameter |-> CsvCell(GetNone(param.name)),
     Agreement |-> CsvCell(GetNone(param.agreement)),
     Probability |-> CsvCell(GetNone(param.probability))]

export_data(params) == [i \in 1..Len(params) |-> ExportRow(params[i])]

\* components/tables.py render_submissions_table: one row (every submission
\* of the model carries its submission_id)
SubmissionRow(sub) ==
    [Status |-> get_agreement_indicator(Get(sub.overall_agreement_pct, JNum(0))),
     SubmissionID |-> sub.submission_id,
     AgreementPct |-> Get(sub.overall_agreement_pct, JNum(0)),
     Style |-> style_agreement(Get(sub.overall_agreement_pct, JNum(0)))]

submissions_table_data(subs) == [i \in 1..Len(subs) |-> SubmissionRow(subs[i])]

\* components/tables.py lines 29-30: building the rows raises when the
\* indicator of one submission does
SubmissionsTableRaises(subs) ==
    \E i \in 1..Len(subs) :
        get_agreement_indicator_raises(Get(subs[i].overall_agreement_pct, JNum(0)))

\* pages/overview.py Export to CSV: one CSV row
SubmissionExportRow(sub) ==
    [SubmissionID |-> sub.submission_id,
     AgreementPct |-> CsvCell(GetNone(sub.overall_agreement_pct))]

submissions_export_data(subs) == [i \in 1..Len(subs) |-> SubmissionExportRow(subs[i])]

\* the keys of the row dicts, which pandas takes as the column headers
InferenceTableColumns ==
    <<"Parameter", "Model", "Prediction", "Ground Truth", "Agreement", "Probability">>
DetailTableColumns ==
    <<"Agreement", "Parameter", "Model Type", "Prediction", "Ground Truth", "GT Binary",
      "Agreement %", "Probability", "Threshold">>
LegacyTableColumns ==
    <<"Parameter", "Status", "Model Type", "Prediction", "Probability", "Confidence",
      "Ground Truth", "GT Binary", "Agreement", "Error">>
DetailExportColumns ==
    <<"Submission ID", "Parameter", "Model Status", "Model Type", "Prediction",
      "Ground Truth Raw", "Ground Truth Binary", "Agreement", "Probability", "Threshold">>
SubmissionsTableColumns ==
    <<"Status", "Submission ID", "Date/Time", "Agreement %", "Correct", "Total",
      "Models Tested">>
SubmissionsExportColumns ==
    <<"Submission ID", "Timestamp", "Total Parameters", "Correct Predictions",
      "Agreement %">>

\* pandas.DataFrame(rows): a frame of no rows has no columns
FrameColumns(rows, headers) == IF Len(rows) = 0 THEN <<>> ELSE headers

\* ------------------------------------------------ actions of SpecRows
\* The input (a parameter list or a submission list) is drawn at the start;
\* each action applies one row shaping function to it.

\* pages/inference.py lines 179-208: the table is built only for a non-empty list
RenderInferenceTable ==
    /\ shaper' = "inference"
    /\ table_data' = IF Len(parameters) > 0 THEN params_data(parameters) ELSE <<>>
    /\ columns' = FrameColumns(parameters, InferenceTableColumns)
    /\ summary_counts' = <<>>
    /\ message' = ""
    /\ UNCHANGED <<parameters, submissions, sessVars, clientVars>>

\* components/detail_view.py render_parameter_breakdown
render_parameter_breakdown ==
    /\ shaper' = "detail"
    /\ IF Len(parameters) = 0
       THEN /\ message' = "No parameter results available"
            /\ table_data' = <<>>
            /\ columns' = <<>>
            /\ summary_counts' = <<>>
       ELSE /\ message' = ""
            /\ table_data' = detail_table_data(parameters)
            /\ columns' = DetailTableColumns
            /\ summary_counts' = SummaryCounts(parameters)
    /\ UNCHANGED <<parameters, submissions, sessVars, clientVars>>

\* components/detail_view.py render_disagreements_only
render_disagreements_only ==
    /\ shaper' = "disagreements"
    /\ IF Len(disagreements(parameters)) = 0
       THEN /\ message' = "Perfect! All parameters agreed with ground truth!"
            /\ table_data' = <<>>
       ELSE /\ message' = ""
            /\ table_data' = [i \in 1..Len(disagreements(parameters)) |->
                                DisagreementRow(disagreements(parameters)[i])]
    /\ columns' = <<>>
    /\ summary_counts' = <<>>
    /\ UNCHANGED <<parameters, submissions, sessVars, clientVars>>

\* src/app.py prepare_results_dataframe
prepare_results_dataframe ==
    /\ shaper' = "legacy"
    /\ IF LegacyRaises(parameters)
       THEN /\ table_data' = <<>>
            /\ columns' = <<>>
            /\ message' = "KeyError"
       ELSE /\ table_data' = [i \in 1..Len(parameters) |-> LegacyRow(parameters[i])]
            /\ columns' = FrameColumns(parameters, LegacyTableColumns)
            /\ message' = ""
    /\ summary_counts' = <<>>
    /\ UNCHANGED <<parameters, submissions, sessVars, clientVars>>

\* pages/detail.py lines 121-151: the Export Details button
ExportDetails ==
    /\ shaper' = "export"
    /\ table_data' = export_data(parameters)
    /\ columns' = FrameColumns(parameters, DetailExportColumns)
    /\ summary_counts' = <<>>
    /\ message' = ""
    /\ UNCHANGED <<parameters, submissions, sessVars, clientVars>>

\* components/tables.py render_submissions_table
render_submissions_table ==
    /\ shaper' = "submissions"
    /\ IF Len(submissions) = 0
       THEN /\ message' = "No submissions found matching the filters"
            /\ table_data' = <<>>
            /\ columns' = <<>>
       ELSE IF SubmissionsTableRaises(submissions)
       THEN /\ message' = "TypeError"
            /\ table_data' = <<>>
            /\ columns' = <<>>
       ELSE /\ message' = ""
            /\ table_data' = submissions_table_data(submissions)
            /\ columns' = SubmissionsTableColumns
    /\ summary_counts' = <<>>
    /\ UNCHANGED <<parameters, submissions, sessVars, clientVars>>

\* pages/overview.py lines 122-150: the Export to CSV button, drawn only for a
\* non-empty page of submissions whose table was rendered (an exception of
\* render_submissions_table leaves the try block before the button)
ExportSubmissions ==
    /\ Len(submissions) > 0
    /\ ~SubmissionsTableRaises(submissions)
    /\ shaper' = "export_submissions"
    /\ table_data' = submissions_export_data(submissions)
    /\ columns' = SubmissionsExportColumns
    /\ summary_counts' = <<>>
    /\ message' = ""
    /\ UNCHANGED <<parameters, submissions, sessVars, clientVars>>

RowsIdle ==
    /\ shaper = "none"
    /\ table_data = <<>>
    /\ summary_counts = <<>>
    /\ message = ""
    /\ columns = <<>>

\* ======================================================================
\*                      the session: frontend/app.py
\* ======================================================================
Unset == <<>>
Set(v) == <<v>>
IsSet(x) == x # <<>>
Val(x) == x[1]

PageInference == "Run Inference"
PageOverview == "Performance Overview"
PageDetail == "Submission Detail"
Pages == {PageInference, PageOverview, PageDetail}

\* ---------------------------------------------------- the remote service
\* what one HTTP exchange ends in
TransportFailures == {"connection_error", "timeout", "http_404", "http_500", "bad_json"}

\* which of the service's possible answers a 2xx response carries
Variants == {"a", "b", "c", "d"}
Outcomes == {[t |-> "ok", v |-> x] : x \in Variants}
            \cup {[t |-> f, v |-> "a"] : f \in TransportFailures}
DefaultOutcome == [t |-> "ok", v |-> "a"]

Sub(id) == [id |-> id]

ErrorParam(n) ==
    [name |-> <<"P", n>>, status |-> "error", agreement |-> JAbsent, probability |-> JAbsent]
SuccessParam(n, agreement) ==
    [name |-> <<"P", n>>, status |-> "success", agreement |-> agreement,
     probability |-> JNum(81200)]

ParametersOf(id) ==
    CASE id = "s1" -> <<SuccessParam(1, JTrue), ErrorParam(2)>>
      [] id = "s2" -> <<SuccessParam(1, JNull)>>
      [] OTHER -> <<>>

TrackedSub(id, pct) == [submission_id |-> id, overall_agreement_pct |-> JNum(pct)]

\* the pagination object of a get_submissions answer, each key Unset if the
\* server left it out; NoPagination is an answer without the object
NoPagination ==
    [total_count |-> Unset, current_page |-> Unset, has_next |-> Unset,
     has_prev |-> Unset, limit |-> Unset]

\* The pagination a server may send for query q. Variant a numbers the pages
\* from 1, has MaxPage of them and echoes the limit; b has nothing to list;
\* c leaves out current_page and limit and offers a previous page; d counts
\* its pages from -1 and always offers a next one.
ServerPagination(v, q) ==
    CASE v = "a" ->
            LET current_page == IF q.limit > 0 THEN (q.offset \div q.limit) + 1 ELSE 1
            IN  [total_count |-> Set(MaxPage * q.limit),
                 current_page |-> Set(current_page),
                 has_next |-> Set(current_page < MaxPage),
                 has_prev |-> Set(current_page > 1),
                 limit |-> Set(q.limit)]
      [] v = "b" -> NoPagination
      [] v = "c" ->
            [total_count |-> Set(1), current_page |-> Unset, has_next |-> Unset,
             has_prev |-> Set(TRUE), limit |-> Unset]
      [] OTHER ->
            [total_count |-> Set(1), current_page |-> Set(-1), has_next |-> Set(TRUE),
             has_prev |-> Set(FALSE), limit |-> Set(q.limit)]

\* the JSON object of a 2xx answer to operation op
ServerBody(op, id, v) ==
    CASE op = "health_check" ->
            [status |-> IF v = "a" THEN Set("healthy")
                        ELSE IF v = "b" THEN Set("degraded") ELSE Unset,
             error |-> Unset]
      [] op = "get_recent_submissions_from_knoxxi" ->
            [submissions |-> IF v = "a" THEN Set(<<Sub("s1"), Sub("s2")>>)
                             ELSE IF v = "b" THEN Unset ELSE Set(<<>>)]
      [] op = "get_submissions" ->
            [submissions |-> IF v = "a" THEN <<TrackedSub("s1", 800), TrackedSub("s2", 499)>>
                             ELSE IF v = "b" THEN <<>> ELSE <<TrackedSub("s2", 500)>>,
             pagination |-> ServerPagination(v, id)]
      [] OTHER ->
            [submission_id |-> id, parameters |-> ParametersOf(id)]

\* -------------------------------------------------------- exceptions
NoExc == [cls |-> "", code |-> 0, msg |-> <<>>]

\* the classes an `except` clause may name that match an exception of class cls
Ancestors(cls) ==
    CASE cls = "ConnectionError" -> {"ConnectionError", "RequestException", "OSError", "Exception"}
      [] cls = "Timeout" -> {"Timeout", "RequestException", "OSError", "Exception"}
      [] cls = "HTTPError" -> {"HTTPError", "RequestException", "OSError", "Exception"}
      [] cls = "JSONDecodeError" -> {"JSONDecodeError", "RequestException", "ValueError", "OSError", "Exception"}
      [] cls = "ValueError" -> {"ValueError", "Exception"}
      [] cls = "Exception" -> {"Exception"}
      [] OTHER -> {}

Catches(clause, exc) == clause \in Ancestors(exc.cls)

\* what requests.get/post, raise_for_status() and response.json() raise inside
\* the try block for a transport outcome other than "ok"
TransportException(t) ==
    CASE t = "connection_error" -> [cls |-> "ConnectionError", code |-> 0, msg |-> <<"connection refused">>]
      [] t = "timeout" -> [cls |-> "Timeout", code |-> 0, msg |-> <<"timed out">>]
      [] t = "http_404" -> [cls |-> "HTTPError", code |-> 404, msg |-> <<"404 Client Error">>]
      [] t = "http_500" -> [cls |-> "HTTPError", code |-> 500, msg |-> <<"500 Server Error">>]
      [] OTHER -> [cls |-> "JSONDecodeError", code |-> 0, msg |-> <<"Expecting value">>]

Return(v) == [kind |-> "return", value |-> Set(v), exc |-> NoExc]
Raise(e) == [kind |-> "raise", value |-> Unset, exc |-> e]

\* ------------------------------------------- utils/api_client.py
health_check_Propagates(o) ==
    IF o.t # "ok"
    THEN Raise(TransportException(o.t))
    ELSE Return(ServerBody("health_check", "", o.v))

health_check(o) ==
    IF o.t # "ok"
    THEN Return([status |-> Set("error"), error |-> Set(TransportException(o.t).msg)])
    ELSE Return(ServerBody("health_check", "", o.v))

get_recent_submissions_from_knoxxi_Raises(limit, o) ==
    IF o.t # "ok"
    THEN Raise(TransportException(o.t))
    ELSE LET data == ServerBody("get_recent_submissions_from_knoxxi", "", o.v)
         IN  Return(IF IsSet(data.submissions) THEN Val(data.submissions) ELSE <<>>)

get_recent_submissions_from_knoxxi(limit, o) ==
    IF o.t # "ok"
    THEN Return(<<>>)
    ELSE LET data == ServerBody("get_recent_submissions_from_knoxxi", "", o.v)
         IN  Return(IF IsSet(data.submissions) THEN Val(data.submissions) ELSE <<>>)

run_inference_NoNotFound(submission_id, o) ==
    IF o.t = "ok"
    THEN Return(ServerBody("run_inference", submission_id, o.v))
    ELSE Raise([cls |-> "Exception", code |-> 0,
                msg |-> <<"Inference failed", TransportException(o.t).msg>>])

run_inference(submission_id, o) ==
    IF o.t = "ok"
    THEN Return(ServerBody("run_inference", submission_id, o.v))
    ELSE LET e == TransportException(o.t)
         IN  IF Catches("HTTPError", e)
             THEN IF e.code = 404
                  THEN Raise([cls |-> "ValueError", code |-> 0,
                              msg |-> <<"Submission not found", submission_id>>])
                  ELSE Raise(e)
             ELSE IF Catches("Exception", e)
             THEN Raise([cls |-> "Exception", code |-> 0,
                         msg |-> <<"Inference failed", e.msg>>])
             ELSE Raise(e)

\* the arguments of get_submissions as one record; None is JNull, a string s is
\* <<"str", s>>, min_agreement a JSON number in percent
Query(limit, offset, min_agreement, start_date, end_date, sort_by, sort_order) ==
    [limit |-> limit, offset |-> offset, min_agreement |-> min_agreement,
     start_date |-> start_date, end_date |-> end_date,
     sort_by |-> sort_by, sort_order |-> sort_order]

\* Python truthiness of an Optional[str]
TruthyStr(x) == x # JNull /\ x # <<"str", "">>

\* a variant that tests min_agreement by truthiness, as the dates are tested
get_submissions_params_TruthyMin(q) ==
    [limit |-> Set(q.limit),
     offset |-> Set(q.offset),
     sort_by |-> Set(q.sort_by),
     sort_order |-> Set(q.sort_order),
     min_agreement |-> IF q.min_agreement \notin {JNull, JNum(0)}
                       THEN Set(q.min_agreement) ELSE Unset,
     start_date |-> IF TruthyStr(q.start_date) THEN Set(q.start_date) ELSE Unset,
     end_date |-> IF TruthyStr(q.end_date) THEN Set(q.end_date) ELSE Unset]

\* lines 119-133: the query string parameters; Unset is a key that is not sent
get_submissions_params(q) ==
    [limit |-> Set(q.limit),
     offset |-> Set(q.offset),
     sort_by |-> Set(q.sort_by),
     sort_order |-> Set(q.sort_order),
     min_agreement |-> IF q.min_agreement # JNull THEN Set(q.min_agreement) ELSE Unset,
     start_date |-> IF TruthyStr(q.start_date) THEN Set(q.start_date) ELSE Unset,
     end_date |-> IF TruthyStr(q.end_date) THEN Set(q.end_date) ELSE Unset]

get_submissions(q, o) ==
    IF o.t = "ok"
    THEN Return(ServerBody("get_submissions", q, o.v))
    ELSE LET e == TransportException(o.t)
         IN  IF Catches("Exception", e)
             THEN Raise([cls |-> "Exception", code |-> 0,
                         msg |-> <<"Failed to fetch submissions", e.msg>>])
             ELSE Raise(e)

\* a variant without the final `except Exception` wrapper
get_submission_detail_Unwrapped(submission_id, o) ==
    IF o.t = "ok"
    THEN Return(ServerBody("get_submission_detail", submission_id, o.v))
    ELSE LET e == TransportException(o.t)
         IN  IF Catches("HTTPError", e) /\ e.code = 404
             THEN Raise([cls |-> "ValueError", code |-> 0,
                         msg |-> <<"Submission not found in tracking database", submission_id>>])
             ELSE Raise(e)

get_submission_detail(submission_id, o) ==
    IF o.t = "ok"
    THEN Return(ServerBody("get_submission_detail", submission_id, o.v))
    ELSE LET e == TransportException(o.t)
         IN  IF Catches("HTTPError", e)
             THEN IF e.code = 404
                  THEN Raise([cls |-> "ValueError", code |-> 0,
                              msg |-> <<"Submission not found in tracking database", submission_id>>])
                  ELSE Raise(e)
             ELSE IF Catches("Exception", e)
             THEN Raise([cls |-> "Exception", code |-> 0,
                         msg |-> <<"Failed to fetch submission details", e.msg>>])
             ELSE Raise(e)

\* ------------------------------------------------- session and widgets
\* st.session_state: every key is Unset until the script assigns it
\* (last_refresh_time, a wall-clock string, is left out)
EmptySession ==
    [page |-> Unset,
     recent_submissions |-> Unset,
     recent_submissions_loading |-> Unset,
     last_inference_result |-> Unset,
     last_submission_id |-> Unset,
     selected_submission_id |-> Unset,
     current_detail |-> Unset,
     current_page |-> Unset,
     page_size |-> Unset]

\* the values Streamlit keeps for the widgets drawn by the last run:
\* the Recent Submissions selectbox (Unset is the "-- Select --" option) and
\* the Submission ID text input (its `value` argument and its current text),
\* and the Per Page selectbox of the overview
EmptyWidgets == [selected |-> Unset, typed |-> Unset, page_size_selector |-> Unset]

\* str.strip() on the texts the model types
Strip(text) ==
    CASE text = " " -> ""
      [] text = " s1 " -> "s1"
      [] OTHER -> text

TypedTexts == {"", " ", "s1", " s1 ", "s9"}

\* what the user did to start a script run
NoTrigger == [kind |-> "none", arg |-> <<>>]
Trigger(kind) == [kind |-> kind, arg |-> <<>>]
TriggerWith(kind, arg) == [kind |-> kind, arg |-> <<arg>>]

\* one client call as the page saw it: the operation, its argument, the
\* transport outcome, the class of the exception the client raised ("" if it
\* returned) and the branch of the caller that took the result
Call(op, arg, o, res, signal) ==
    [op |-> op, arg |-> <<arg>>, t |-> o.t, cls |-> res.exc.cls, signal |-> signal]

\* the health check as main() saw it: only the returned dictionary's verdict
\* is kept, not the transport outcome behind it
HealthCall(res, signal) ==
    [op |-> "health_check", arg |-> <<"">>, t |-> "", cls |-> res.exc.cls, signal |-> signal]

Msg(level, text) == <<level, text>>

\* One script run in progress: the session state and widget values it works
\* on, what it has called, shown and drawn so far, its local variables
\* submission_id and load_button, and how it ended (st.rerun() or an
\* exception that escaped stop the script where they are raised).
StartRun(ss, ws, trig) ==
    [ss |-> ss, ws |-> ws, trig |-> trig,
     calls |-> <<>>, messages |-> <<>>, rerun |-> FALSE, unhandled |-> FALSE,
     health_banner |-> "", rendered |-> "",
     submission_id |-> "", load_button |-> FALSE,
     shown_result |-> Unset, shown_detail |-> Unset, shown_rows |-> <<>>,
     controls |-> {}, submissions |-> <<>>, pagination |-> Unset]

Stopped(r) == r.rerun \/ r.unhandled

\* the outcomes a data call of the session is run against: one of each kind
\* the pages can tell apart (SpecClient runs every operation on all of Outcomes)
SessionOutcomes == {o \in Outcomes : o.t \in {"ok", "http_404", "http_500", "timeout"}}
SessionHealthOutcomes == {DefaultOutcome, [t |-> "connection_error", v |-> "a"]}

\* an inference result and a submission detail are fixed by the submission id
OutcomesOf(op) ==
    IF op \in {"run_inference", "get_submission_detail"}
    THEN {o \in SessionOutcomes : o.v = "a"}
    ELSE SessionOutcomes

\* ----------------------------------------------- pages/inference.py
\* lines 62-75: the `except Exception` around the recent submissions fetch
RecentHandler(exc) == IF Catches("Exception", exc) THEN "TransientFailure" ELSE "Unhandled"

RecentSignal(res) == IF res.kind = "return" THEN "List" ELSE RecentHandler(res.exc)

\* a variant that keeps the loading flag set while the list is empty
LoadRecentSubmissions_KeepsLoading(r, d) ==
    LET res == get_recent_submissions_from_knoxxi(100, d)
        signal == RecentSignal(res)
        call == Call("get_recent_submissions_from_knoxxi", 100, d, res, signal)
    IN  [r EXCEPT !.ss.recent_submissions = res.value,
                  !.ss.recent_submissions_loading = Set(Val(res.value) = <<>>),
                  !.calls = Append(@, call),
                  !.rerun = Val(res.value) # <<>>]

\* lines 64-75: the fetch of the recent submissions with transport outcome d
LoadRecentSubmissions(r, d) ==
    LET res == get_recent_submissions_from_knoxxi(100, d)
        signal == RecentSignal(res)
        call == Call("get_recent_submissions_from_knoxxi", 100, d, res, signal)
    IN  IF signal = "List"
        THEN [r EXCEPT !.ss.recent_submissions = res.value,
                       !.ss.recent_submissions_loading = Set(FALSE),
                       !.calls = Append(@, call),
                       !.rerun = TRUE]
        ELSE IF signal = "TransientFailure"
        THEN [r EXCEPT !.ss.recent_submissions = Set(<<>>),
                       !.ss.recent_submissions_loading = Set(FALSE),
                       !.calls = Append(@, call),
                       !.messages = Append(@, Msg("error", "Could not load recent submissions"))]
        ELSE [r EXCEPT !.calls = Append(@, call), !.unhandled = TRUE]

\* lines 59-75: the first render creates the list and loads it
InferenceRecent(r) ==
    IF Stopped(r) THEN {r}
    ELSE IF ~IsSet(r.ss.recent_submissions)
    THEN {LoadRecentSubmissions(
              [r EXCEPT !.ss.recent_submissions = Set(<<>>),
                        !.ss.recent_submissions_loading = Set(TRUE)], d) :
            d \in OutcomesOf("get_recent_submissions_from_knoxxi")}
    ELSE IF IsSet(r.ss.recent_submissions_loading) /\ Val(r.ss.recent_submissions_loading)
    THEN {LoadRecentSubmissions(r, d) : d \in OutcomesOf("get_recent_submissions_from_knoxxi")}
    ELSE {r}

\* lines 77-115: the selectbox and the Run Inference button
InferenceSelect(r) ==
    LET recent_submissions == IF IsSet(r.ss.recent_submissions)
                              THEN Val(r.ss.recent_submissions) ELSE <<>>
        has == Len(recent_submissions) > 0
        selected == IF ~has THEN Unset
                    ELSE IF r.trig.kind = "select" THEN Val(r.trig.arg)
                    ELSE r.ws.selected
        submission_id == IF has /\ IsSet(selected) THEN Val(selected).id ELSE ""
    IN  IF Stopped(r) THEN r
        ELSE [r EXCEPT !.ws = [selected |-> selected, typed |-> Unset,
                               page_size_selector |-> Unset],
                       !.submission_id = submission_id,
                       !.messages = IF has THEN @
                                    ELSE Append(@, Msg("warning", "No recent submissions available")),
                       !.controls = (IF has THEN {"select"} ELSE {})
                                    \cup (IF submission_id # "" THEN {"run_inference"} ELSE {})]

\* lines 129-130: a successful inference replaces the cached result
StoreInference_KeepsFirst(ss, result, submission_id) ==
    IF IsSet(ss.last_inference_result)
    THEN [ss EXCEPT !.last_submission_id = Set(submission_id)]
    ELSE [ss EXCEPT !.last_inference_result = Set(result),
                    !.last_submission_id = Set(submission_id)]

StoreInference(ss, result, submission_id) ==
    [ss EXCEPT !.last_inference_result = Set(result),
               !.last_submission_id = Set(submission_id)]

\* the `except` clauses around run_inference, first match wins
InferenceHandler_ValueErrorOnly(exc) ==
    IF Catches("ValueError", exc) THEN "NotFound" ELSE "Unhandled"

InferenceHandler(exc) ==
    IF Catches("ValueError", exc) THEN "NotFound"
    ELSE IF Catches("Exception", exc) THEN "TransientFailure"
    ELSE "Unhandled"

\* the branch of the page that takes the outcome of run_inference
InferenceSignal(res) == IF res.kind = "return" THEN "Ok" ELSE InferenceHandler(res.exc)

\* lines 124-137: the call with transport outcome d
RunInference(r, d) ==
    LET res == run_inference(Strip(r.submission_id), d)
        signal == InferenceSignal(res)
        call == Call("run_inference", Strip(r.submission_id), d, res, signal)
    IN  IF signal = "Ok"
        THEN [r EXCEPT !.ss = StoreInference(@, Val(res.value), Strip(r.submission_id)),
                       !.calls = Append(@, call),
                       !.messages = Append(@, Msg("success", "Inference completed"))]
        ELSE IF signal = "NotFound"
        THEN [r EXCEPT !.calls = Append(@, call),
                       !.messages = Append(@, Msg("error", res.exc.msg[1]))]
        ELSE IF signal = "TransientFailure"
        THEN [r EXCEPT !.calls = Append(@, call),
                       !.messages = Append(@, Msg("error", "Error"))]
        ELSE [r EXCEPT !.calls = Append(@, call), !.unhandled = TRUE]

\* lines 119-137: the Run Inference button
InferenceRun(r) ==
    IF Stopped(r) \/ r.trig.kind # "run_inference" THEN {r}
    ELSE IF r.submission_id = "" \/ Strip(r.submission_id) = ""
    THEN {[r EXCEPT !.messages = Append(@, Msg("error", "Please select a submission"))]}
    ELSE {RunInference(r, d) : d \in OutcomesOf("run_inference")}

\* lines 139-232: the results section and its two navigation buttons
InferenceResults(r) ==
    IF Stopped(r) \/ ~IsSet(r.ss.last_inference_result) THEN r
    ELSE LET result == Val(r.ss.last_inference_result)
             rows == IF Len(result.parameters) > 0 THEN params_data(result.parameters) ELSE <<>>
         IN  IF r.trig.kind = "view_overview"
             THEN [r EXCEPT !.ss.page = Set(PageOverview),
                            !.shown_result = Set(result), !.shown_rows = rows,
                            !.rerun = TRUE]
             ELSE IF r.trig.kind = "view_detail"
             THEN [r EXCEPT !.ss.selected_submission_id = Set(result.submission_id),
                            !.ss.page = Set(PageDetail),
                            !.shown_result = Set(result), !.shown_rows = rows,
                            !.rerun = TRUE]
             ELSE [r EXCEPT !.shown_result = Set(result), !.shown_rows = rows,
                            !.controls = @ \cup {"view_overview", "view_detail"}]

\* show_inference_page: the ways one render of the page can end
show_inference_page(r) ==
    {InferenceResults(r3) :
        r3 \in UNION {InferenceRun(r2) :
                        r2 \in {InferenceSelect(r1) : r1 \in InferenceRecent(r)}}}

\* ------------------------------------------------- pages/detail.py
\* lines 26-47: the Submission ID input and the Load Details button
DetailInput(r) ==
    LET selected_from_overview ==
            IF IsSet(r.ss.selected_submission_id) /\ Val(r.ss.selected_submission_id) # ""
            THEN r.ss.selected_submission_id ELSE Unset
        value == IF IsSet(selected_from_overview) THEN Val(selected_from_overview) ELSE ""
        submission_id ==
            IF r.trig.kind = "type" THEN Val(r.trig.arg)
            ELSE IF IsSet(r.ws.typed) /\ Val(r.ws.typed).value = value THEN Val(r.ws.typed).text
            ELSE value
    IN  IF Stopped(r) THEN r
        ELSE [r EXCEPT !.ws = [selected |-> Unset,
                               typed |-> Set([value |-> value, text |-> submission_id]),
                               page_size_selector |-> Unset],
                       !.submission_id = submission_id,
                       !.load_button = r.trig.kind = "load_details"
                                       \/ IsSet(selected_from_overview),
                       !.controls = {"type", "load_details"}]

\* a variant that leaves the selection in the session state
StoreDetail_KeepsSelection(ss, details) ==
    [ss EXCEPT !.current_detail = Set(details)]

\* lines 60-64: a successful load clears the selection and replaces the cache
StoreDetail(ss, details) ==
    [ss EXCEPT !.selected_submission_id = Unset,
               !.current_detail = Set(details)]

\* the `except` clauses around get_submission_detail, first match wins
DetailHandler(exc) ==
    IF Catches("ValueError", exc) THEN "NotFound"
    ELSE IF Catches("Exception", exc) THEN "TransientFailure"
    ELSE "Unhandled"

DetailSignal(res) == IF res.kind = "return" THEN "Ok" ELSE DetailHandler(res.exc)

\* lines 54-72: the call with transport outcome d
LoadDetail(r, d) ==
    LET res == get_submission_detail(Strip(r.submission_id), d)
        signal == DetailSignal(res)
        call == Call("get_submission_detail", Strip(r.submission_id), d, res, signal)
    IN  IF signal = "Ok"
        THEN [r EXCEPT !.ss = StoreDetail(@, Val(res.value)),
                       !.calls = Append(@, call),
                       !.messages = Append(@, Msg("success", "Loaded details"))]
        ELSE IF signal = "NotFound"
        THEN [r EXCEPT !.calls = Append(@, call),
                       !.messages = @ \o <<Msg("error", res.exc.msg[1]),
                                           Msg("info", "Try running inference on it first")>>]
        ELSE IF signal = "TransientFailure"
        THEN [r EXCEPT !.calls = Append(@, call),
                       !.messages = Append(@, Msg("error", "Error"))]
        ELSE [r EXCEPT !.calls = Append(@, call), !.unhandled = TRUE]

\* a variant that tests the text for emptiness only, not for blankness
DetailLoad_NoBlankCheck(r) ==
    IF Stopped(r) \/ ~r.load_button THEN {r}
    ELSE IF r.submission_id = ""
    THEN {[r EXCEPT !.messages = Append(@, Msg("error", "Please enter a submission ID"))]}
    ELSE {LoadDetail(r, d) : d \in OutcomesOf("get_submission_detail")}

\* lines 49-72: load on the button or on a selection made elsewhere
DetailLoad(r) ==
    IF Stopped(r) \/ ~r.load_button THEN {r}
    ELSE IF r.submission_id = "" \/ Strip(r.submission_id) = ""
    THEN {[r EXCEPT !.messages = Append(@, Msg("error", "Please enter a submission ID"))]}
    ELSE {LoadDetail(r, d) : d \in OutcomesOf("get_submission_detail")}

\* lines 74-172: the loaded detail with its buttons, or the instructions
DetailDisplay(r) ==
    IF Stopped(r) THEN r
    ELSE IF IsSet(r.ss.current_detail)
    THEN LET details == Val(r.ss.current_detail)
             rows == detail_table_data(details.parameters)
         IN  IF r.trig.kind = "back_to_overview"
             THEN [r EXCEPT !.ss.page = Set(PageOverview),
                            !.shown_detail = Set(details), !.shown_rows = rows,
                            !.rerun = TRUE]
             ELSE IF r.trig.kind = "run_new_inference"
             THEN [r EXCEPT !.ss.page = Set(PageInference),
                            !.shown_detail = Set(details), !.shown_rows = rows,
                            !.rerun = TRUE]
             ELSE [r EXCEPT !.shown_detail = Set(details), !.shown_rows = rows,
                            !.controls = @ \cup {"back_to_overview", "run_new_inference",
                                                 "export_details"}]
    ELSE IF r.trig.kind = "go_to_overview"
         THEN [r EXCEPT !.ss.page = Set(PageOverview), !.rerun = TRUE]
         ELSE [r EXCEPT !.controls = @ \cup {"go_to_overview"}]

\* show_detail_page: the ways one render of the page can end
show_detail_page(r) ==
    {DetailDisplay(r2) : r2 \in UNION {DetailLoad(r1) : r1 \in {DetailInput(r)}}}

\* ------------------------------------------------ pages/overview.py
\* lines 156-158: the `except Exception` around the main column
OverviewHandler(exc) == IF Catches("Exception", exc) THEN "TransientFailure" ELSE "Unhandled"

OverviewSignal(res) == IF res.kind = "return" THEN "Ok" ELSE OverviewHandler(res.exc)

\* st.rerun() before a widget is drawn: the release of Streamlit decides
\* whether the value kept for the widget survives the stopped run
UndrawnWidgets(ws) == {ws, [ws EXCEPT !.page_size_selector = Unset]}

\* dict.get(key, default) on a pagination key
GetOr(field, default) == IF IsSet(field) THEN Val(field) ELSE default

\* lines 31-36: the pagination keys of the session state are created once
OverviewDefaults(r) ==
    [r EXCEPT !.ss.current_page = IF IsSet(@) THEN @ ELSE Set(1),
              !.ss.page_size = IF IsSet(@) THEN @ ELSE Set(50),
              !.ws = [EmptyWidgets EXCEPT !.page_size_selector = r.ws.page_size_selector]]

\* lines 78-89: the arguments of get_submissions, with the filter widgets at
\* their initial values (lines 46-61)
OverviewQuery(ss) ==
    Query(Val(ss.page_size), (Val(ss.current_page) - 1) * Val(ss.page_size),
          JNull, JNull, JNull, "timestamp", "desc")

\* lines 73-92 and 156-158: the fetch with transport outcome d
OverviewFetch(r, d) ==
    LET q == OverviewQuery(r.ss)
        res == get_submissions(q, d)
        signal == OverviewSignal(res)
        call == Call("get_submissions", q, d, res, signal)
    IN  IF signal = "Unhandled"
        THEN [r EXCEPT !.calls = Append(@, call), !.unhandled = TRUE]
        ELSE IF signal = "TransientFailure"
        THEN [r EXCEPT !.calls = Append(@, call),
                       !.messages = Append(@, Msg("error", "Error loading submissions"))]
        ELSE [r EXCEPT !.calls = Append(@, call),
                       !.submissions = Val(res.value).submissions,
                       !.pagination = Set(Val(res.value).pagination)]

\* lines 100-108 and tables.py 77-88: the table and its submission buttons
OverviewTable(r) ==
    LET subs == r.submissions
    IN  IF Stopped(r) \/ ~IsSet(r.pagination) THEN r
        ELSE IF Len(subs) = 0
        THEN [r EXCEPT !.messages = Append(@, Msg("info", "No submissions found matching the filters"))]
        ELSE IF r.trig.kind = "open_submission" /\ Val(r.trig.arg) \in 1..Len(subs)
        THEN [r EXCEPT !.ss.selected_submission_id = Set(subs[Val(r.trig.arg)].submission_id),
                       !.ss.page = Set(PageDetail),
                       !.shown_rows = submissions_table_data(subs),
                       !.rerun = TRUE]
        ELSE [r EXCEPT !.shown_rows = submissions_table_data(subs),
                       !.controls = @ \cup {"open_submission"}]

\* a variant that keeps the page when the page size changes
handle_page_change_KeepsPage(r, new_page, new_page_size) ==
    [r EXCEPT !.ss.current_page = IF IsSet(new_page_size) THEN @ ELSE Set(new_page),
              !.ss.page_size = IF IsSet(new_page_size) THEN new_page_size ELSE @,
              !.rerun = TRUE]

\* lines 111-116: handle_page_change(new_page, new_page_size=None) in run r
handle_page_change(r, new_page, new_page_size) ==
    [r EXCEPT !.ss.current_page = IF IsSet(new_page_size) THEN Set(1) ELSE Set(new_page),
              !.ss.page_size = IF IsSet(new_page_size) THEN new_page_size ELSE @,
              !.rerun = TRUE]

PageSizeOptions == {10, 25, 50, 100}

\* tables.py 97-145 under the test of overview.py 118-119: the ways the
\* pagination controls can end the run or leave it going
render_pagination_controls(r) ==
    LET p == Val(r.pagination)
        current_page == GetOr(p.current_page, 1)
        has_next == GetOr(p.has_next, FALSE)
        has_prev == GetOr(p.has_prev, FALSE)
        page_size == IF r.trig.kind = "page_size" THEN Val(r.trig.arg)
                     ELSE GetOr(r.ws.page_size_selector, 50)
        drawn == [r EXCEPT !.ws.page_size_selector = Set(page_size)]
    IN  IF Stopped(r) \/ ~IsSet(r.pagination) THEN {r}
        ELSE IF GetOr(p.total_count, 0) <= 0 THEN {r}
        ELSE IF has_prev /\ r.trig.kind = "previous"
        THEN {handle_page_change([r EXCEPT !.ws = w], current_page - 1, Unset) :
                w \in UndrawnWidgets(r.ws)}
        ELSE IF has_next /\ r.trig.kind = "next"
        THEN {handle_page_change([r EXCEPT !.ws = w], current_page + 1, Unset) :
                w \in UndrawnWidgets(r.ws)}
        ELSE IF page_size # GetOr(p.limit, 50)
        THEN {handle_page_change(drawn, 1, Set(page_size))}
        ELSE {[drawn EXCEPT !.controls = @ \cup {"page_size"}
                                           \cup (IF has_prev THEN {"previous"} ELSE {})
                                           \cup (IF has_next THEN {"next"} ELSE {})]}

\* lines 121-154: the export section, and the end of a run that got this far:
\* Streamlit forgets the selectbox value if the run did not draw the selectbox
OverviewExport(r) ==
    LET drew == IsSet(r.pagination) /\ GetOr(Val(r.pagination).total_count, 0) > 0
        shown == IsSet(r.pagination) /\ Len(r.submissions) > 0
        kept == IF drew THEN r.ws ELSE [r.ws EXCEPT !.page_size_selector = Unset]
    IN  IF Stopped(r) THEN r
        ELSE IF shown /\ r.trig.kind = "refresh"
        THEN [r EXCEPT !.ws = kept, !.rerun = TRUE]
        ELSE [r EXCEPT !.ws = kept,
                       !.controls = @ \cup (IF shown THEN {"export_csv", "refresh"} ELSE {})]

\* lines 73-158: the main column with transport outcome d
OverviewMain(r, d) ==
    {OverviewExport(r2) : r2 \in render_pagination_controls(OverviewTable(OverviewFetch(r, d)))}

\* show_overview_page: the Reset button (lines 68-70) reruns before any fetch;
\* the whole main column runs inside one try / except Exception
show_overview_page(r) ==
    IF Stopped(r) THEN {r}
    ELSE IF r.trig.kind = "reset"
    THEN {[OverviewDefaults(r) EXCEPT !.ss.current_page = Set(1), !.ws = w, !.rerun = TRUE] :
            w \in UndrawnWidgets(OverviewDefaults(r).ws)}
    ELSE UNION {OverviewMain([OverviewDefaults(r) EXCEPT !.controls = {"apply_filters", "reset"}], d) :
                  d \in OutcomesOf("get_submissions")}

\* ---------------------------------------------------- frontend/app.py
\* lines 66-84: the sidebar's verdict on the dictionary health_check returned
HealthSignal(res) ==
    IF res.kind = "raise" THEN "Unhandled"
    ELSE IF Val(res.value).status = Set("healthy") THEN "Healthy" ELSE "Unhealthy"

\* lines 47-84: the sidebar, with transport outcome h for the health check
Sidebar(r, h) ==
    LET page == IF r.trig.kind = "nav" THEN r.trig.arg[1]
                ELSE IF IsSet(r.ss.page) THEN Val(r.ss.page)
                ELSE PageInference
        hres == health_check(h)
        signal == HealthSignal(hres)
    IN  IF signal = "Unhandled"
        THEN [r EXCEPT !.ss.page = Set(page),
                       !.calls = Append(@, HealthCall(hres, signal)),
                       !.unhandled = TRUE]
        ELSE [r EXCEPT !.ss.page = Set(page),
                       !.calls = Append(@, HealthCall(hres, signal)),
                       !.health_banner = IF signal = "Healthy" THEN "API Connected"
                                         ELSE "API Disconnected"]

\* a variant whose last branch also takes the overview page
Route_OverviewToDetail(r) ==
    IF Stopped(r) THEN {r}
    ELSE IF Val(r.ss.page) = PageInference
    THEN show_inference_page([r EXCEPT !.rendered = PageInference])
    ELSE show_detail_page([r EXCEPT !.rendered = PageDetail])

\* lines 86-95: the page renderer of the selected page
Route(r) ==
    IF Stopped(r) THEN {r}
    ELSE IF Val(r.ss.page) = PageInference
    THEN show_inference_page([r EXCEPT !.rendered = PageInference])
    ELSE IF Val(r.ss.page) = PageOverview
    THEN show_overview_page([r EXCEPT !.rendered = PageOverview])
    ELSE show_detail_page([r EXCEPT !.rendered = PageDetail])

\* main(): the ways one script run started by `trig` can end
main(ss, ws, trig) ==
    UNION {Route(r1) : r1 \in {Sidebar(StartRun(ss, ws, trig), h) : h \in SessionHealthOutcomes}}

\* ======================================================================
\*        the client operations, one call at a time (SpecClient)
\* ======================================================================
\* The request (operation, arguments, transport outcome) is drawn at the
\* start; the action of the operation runs the client method and the handler
\* of the page that calls it.
SubmissionIds == {"s1", "s9"}
Limits == {10, 50}
Offsets == {0, 50}
MinAgreements == {JNull, JNum(0), JNum(70)}
Dates == {JNull, <<"str", "">>, <<"str", "2026-01-01T00:00:00">>}
SortFields == {"timestamp", "agreement"}
SortOrders == {"desc", "asc"}

Queries ==
    {Query(l, f, m, sd, ed, sb, so) :
        l \in Limits, f \in Offsets, m \in MinAgreements, sd \in Dates, ed \in Dates,
        sb \in SortFields, so \in SortOrders}

Requests ==
    {[op |-> "health_check", arg |-> <<>>, o |-> o] : o \in Outcomes}
    \cup {[op |-> "get_recent_submissions_from_knoxxi", arg |-> <<l>>, o |-> o] :
             l \in Limits, o \in Outcomes}
    \cup {[op |-> op, arg |-> <<id>>, o |-> o] :
             op \in {"run_inference", "get_submission_detail"},
             id \in SubmissionIds, o \in Outcomes}
    \cup {[op |-> "get_submissions", arg |-> <<q>>, o |-> o] : q \in Queries, o \in Outcomes}

NoResponse == [op |-> "none", params |-> <<>>, res |-> Return(<<>>), signal |-> ""]
Response(op, params, res, signal) ==
    [op |-> op, params |-> params, res |-> res, signal |-> signal]

ClientIdle ==
    /\ request = [op |-> "none", arg |-> <<>>, o |-> DefaultOutcome]
    /\ response = NoResponse

CallHealthCheck ==
    /\ request.op = "health_check"
    /\ \E res \in {health_check(request.o)} :
          response' = Response("health_check", <<>>, res, HealthSignal(res))
    /\ UNCHANGED <<request, rowVars, sessVars>>

CallRecentSubmissions ==
    /\ request.op = "get_recent_submissions_from_knoxxi"
    /\ \E res \in {get_recent_submissions_from_knoxxi(request.arg[1], request.o)} :
          response' = Response("get_recent_submissions_from_knoxxi",
                               [limit |-> Set(request.arg[1])], res, RecentSignal(res))
    /\ UNCHANGED <<request, rowVars, sessVars>>

CallRunInference ==
    /\ request.op = "run_inference"
    /\ \E res \in {run_inference(request.arg[1], request.o)} :
          response' = Response("run_inference", <<>>, res, InferenceSignal(res))
    /\ UNCHANGED <<request, rowVars, sessVars>>

CallGetSubmissions ==
    /\ request.op = "get_submissions"
    /\ \E res \in {get_submissions(request.arg[1], request.o)} :
          response' = Response("get_submissions", get_submissions_params(request.arg[1]),
                               res, OverviewSignal(res))
    /\ UNCHANGED <<request, rowVars, sessVars>>

CallGetSubmissionDetail ==
    /\ request.op = "get_submission_detail"
    /\ \E res \in {get_submission_detail(request.arg[1], request.o)} :
          response' = Response("get_submission_detail", <<>>, res, DetailSignal(res))
    /\ UNCHANGED <<request, rowVars, sessVars>>

\* the state before the first script run of a new browser session
Init ==
    /\ session_state = EmptySession
    /\ widget_state = EmptyWidgets
    /\ calls = <<>>
    /\ messages = <<>>
    /\ rerun = TRUE
    /\ unhandled = FALSE
    /\ health_banner = ""
    /\ rendered = ""
    /\ shown_result = Unset
    /\ shown_detail = Unset
    /\ shown_rows = <<>>
    /\ controls = {}
    /\ trigger = NoTrigger
    /\ pagination = Unset
    /\ RowsIdle
    /\ parameters = <<>>
    /\ submissions = <<>>
    /\ ClientIdle

\* one script run and the state it leaves
ScriptRun(trig) ==
    \E m \in main(session_state, widget_state, trig) :
        /\ session_state' = m.ss
        /\ widget_state' = m.ws
        /\ calls' = m.calls
        /\ messages' = m.messages
        /\ rerun' = m.rerun
        /\ unhandled' = m.unhandled
        /\ health_banner' = m.health_banner
        /\ rendered' = m.rendered
        /\ shown_result' = m.shown_result
        /\ shown_detail' = m.shown_detail
        /\ shown_rows' = m.shown_rows
        /\ controls' = m.controls
        /\ trigger' = trig
        /\ pagination' = m.pagination
        /\ UNCHANGED <<rowVars, clientVars>>

\* the first load, and the run st.rerun() starts
Rerun == rerun /\ ScriptRun(NoTrigger)

Waiting == ~rerun

\* the sidebar radio
Navigate == Waiting /\ \E label \in Pages : ScriptRun(TriggerWith("nav", label))

\* the inference page
RecentOptions ==
    {Unset} \cup {Set(Val(session_state.recent_submissions)[i]) :
                    i \in 1..Len(Val(session_state.recent_submissions))}
SelectSubmission ==
    /\ Waiting /\ "select" \in controls
    /\ \E option \in RecentOptions : ScriptRun(TriggerWith("select", option))
ClickRunInference == Waiting /\ "run_inference" \in controls /\ ScriptRun(Trigger("run_inference"))
ClickViewOverview == Waiting /\ "view_overview" \in controls /\ ScriptRun(Trigger("view_overview"))
ClickViewDetail == Waiting /\ "view_detail" \in controls /\ ScriptRun(Trigger("view_detail"))

\* the detail page
TypeSubmissionId ==
    /\ Waiting /\ "type" \in controls
    /\ \E text \in TypedTexts : ScriptRun(TriggerWith("type", text))
ClickLoadDetails == Waiting /\ "load_details" \in controls /\ ScriptRun(Trigger("load_details"))
ClickBackToOverview == Waiting /\ "back_to_overview" \in controls /\ ScriptRun(Trigger("back_to_overview"))
ClickRunNewInference == Waiting /\ "run_new_inference" \in controls /\ ScriptRun(Trigger("run_new_inference"))
ClickExportDetails == Waiting /\ "export_details" \in controls /\ ScriptRun(Trigger("export_details"))
ClickGoToOverview == Waiting /\ "go_to_overview" \in controls /\ ScriptRun(Trigger("go_to_overview"))

\* the overview page
ClickSubmission ==
    /\ Waiting /\ "open_submission" \in controls
    /\ \E i \in 1..MaxSubs : ScriptRun(TriggerWith("open_submission", i))
ClickApplyFilters == Waiting /\ "apply_filters" \in controls /\ ScriptRun(Trigger("apply_filters"))
ClickReset == Waiting /\ "reset" \in controls /\ ScriptRun(Trigger("reset"))
ClickRefresh == Waiting /\ "refresh" \in controls /\ ScriptRun(Trigger("refresh"))
ClickExportCsv == Waiting /\ "export_csv" \in controls /\ ScriptRun(Trigger("export_csv"))
ClickPrevious == Waiting /\ "previous" \in controls /\ ScriptRun(Trigger("previous"))
ClickNext == Waiting /\ "next" \in controls /\ ScriptRun(Trigger("next"))
SelectPageSize ==
    /\ Waiting /\ "page_size" \in controls
    /\ \E size \in PageSizeOptions : ScriptRun(TriggerWith("page_size", size))

Next ==
    \/ Rerun
    \/ Navigate
    \/ SelectSubmission
    \/ ClickRunInference
    \/ ClickViewOverview
    \/ ClickViewDetail
    \/ TypeSubmissionId
    \/ ClickLoadDetails
    \/ ClickBackToOverview
    \/ ClickRunNewInference
    \/ ClickExportDetails
    \/ ClickGoToOverview
    \/ ClickSubmission
    \/ ClickApplyFilters
    \/ ClickReset
    \/ ClickRefresh
    \/ ClickExportCsv

vars == <<rowVars, sessVars, clientVars>>

\* the session variables of a run without script runs stay as before the first load
SessionIdle ==
    /\ session_state = EmptySession
    /\ widget_state = EmptyWidgets
    /\ calls = <<>>
    /\ messages = <<>>
    /\ rerun = TRUE
    /\ unhandled = FALSE
    /\ health_banner = ""
    /\ rendered = ""
    /\ shown_result = Unset
    /\ shown_detail = Unset
    /\ shown_rows = <<>>
    /\ controls = {}
    /\ trigger = NoTrigger
    /\ pagination = Unset

Spec == Init /\ [][Next]_vars

\* The session of a user who pages through the overview: the sidebar, the
\* filter, pagination and export controls of the overview page and the reruns
\* (Spec follows the submission buttons and the other two pages, and leaves
\* the pagination controls alone).
NextOverview ==
    \/ Rerun
    \/ Navigate
    \/ ClickApplyFilters
    \/ ClickReset
    \/ ClickRefresh
    \/ ClickExportCsv
    \/ ClickPrevious
    \/ ClickNext
    \/ SelectPageSize

SpecOverview == Init /\ [][NextOverview]_vars

\* SpecRows: the input of the row shaping functions is drawn at the start
InitRows ==
    /\ shaper = "none" /\ table_data = <<>> /\ summary_counts = <<>> /\ message = ""
    /\ columns = <<>>
    /\ \/ parameters \in ParamLists /\ submissions = <<>>
       \/ parameters = <<>> /\ submissions \in SubmissionLists
    /\ SessionIdle
    /\ ClientIdle

NextRows ==
    \/ RenderInferenceTable
    \/ render_parameter_breakdown
    \/ render_disagreements_only
    \/ prepare_results_dataframe
    \/ ExportDetails
    \/ render_submissions_table
    \/ ExportSubmissions

SpecRows == InitRows /\ [][NextRows]_vars

\* SpecClient: the request is drawn at the start
InitClient ==
    /\ request \in Requests
    /\ response = NoResponse
    /\ SessionIdle
    /\ RowsIdle /\ parameters = <<>> /\ submissions = <<>>

NextClient ==
    \/ CallHealthCheck
    \/ CallRecentSubmissions
    \/ CallRunInference
    \/ CallGetSubmissions
    \/ CallGetSubmissionDetail

SpecClient == InitClient /\ [][NextClient]_vars

\* ------------------------------------------------------------------ claims
\* the agreement value a row was shaped from (a missing key reads as None)
AgreementOf(i) == GetNone(parameters[i].agreement)

\* C1: on the inference table and the detail table, a parameter whose status is
\* not "error" (and whose agreement key is present) shows the badge "agree" iff
\* agreement is true, "disagree" iff it is false, "no-ground-truth" iff it is null.
C1_BadgeIsThreeValued ==
    shaper \in {"inference", "detail"} =>
        \A i \in 1..Len(parameters) :
            (parameters[i].status # "error" /\ parameters[i].agreement # JAbsent) =>
                /\ (table_data[i].Agreement = BadgeAgree) <=> (AgreementOf(i) = JTrue)
                /\ (table_data[i].Agreement = BadgeDisagree) <=> (AgreementOf(i) = JFalse)
                /\ (table_data[i].Agreement = BadgeNoGroundTruth) <=> (AgreementOf(i) = JNull)

\* C2: on every path that shapes parameter rows (inference table, detail table,
\* legacy dataframe) a parameter with status "error" is shown in the error
\* category whatever its agreement field holds.  The "-" cell of the inference
\* table is accepted here as the error category.
C2_ErrorTakesPrecedence ==
    shaper \in {"inference", "detail", "legacy"} =>
        \A i \in 1..Len(table_data) :
            parameters[i].status = "error" =>
                table_data[i].Agreement \in {BadgeError, BadgeDash}

\* the list `params` with the agreement of its i-th parameter set to false
WithAgreementFalse(params, i) ==
    [params EXCEPT ![i] = [params[i] EXCEPT !.agreement = JFalse]]

\* C3: two successful parameters that differ only in agreement null versus false
\* give different output on the inference table, the detail table, the detail
\* summary counts and the CSV export.
C3_NullIsNotFalse ==
    \A i \in 1..Len(parameters) :
        (parameters[i].status = "success" /\ parameters[i].agreement = JNull) =>
            LET other == WithAgreementFalse(parameters, i)
            IN  /\ shaper = "inference" => table_data # params_data(other)
                /\ shaper = "detail" => /\ table_data # detail_table_data(other)
                                        /\ summary_counts # SummaryCounts(other)
                /\ shaper = "export" => table_data # export_data(other)

\* C4: the indicator of a submission row is "high" for pct >= 80, "medium" for
\* 50 <= pct < 80 and "low" for pct < 50, it never decreases when pct grows, and
\* the colour of the Agreement % cell is of the same tier.
TierRank(t) == IF t = IndicatorHigh THEN 2 ELSE IF t = IndicatorMedium THEN 1 ELSE 0
StyleRank(t) == IF t = StyleHigh THEN 2 ELSE IF t = StyleMedium THEN 1 ELSE 0
PctOf(i) == submissions[i].overall_agreement_pct[2]
HasPct(i) == submissions[i].overall_agreement_pct # JAbsent

C4_IndicatorTierExact ==
    shaper = "submissions" =>
        /\ \A i \in 1..Len(table_data) :
              HasPct(i) =>
                /\ (PctOf(i) >= 800) <=> (table_data[i].Status = IndicatorHigh)
                /\ (PctOf(i) >= 500 /\ PctOf(i) < 800) <=> (table_data[i].Status = IndicatorMedium)
                /\ (PctOf(i) < 500) <=> (table_data[i].Status = IndicatorLow)
                /\ StyleRank(table_data[i].Style) = TierRank(table_data[i].Status)
        /\ \A i, j \in 1..Len(table_data) :
              (HasPct(i) /\ HasPct(j) /\ PctOf(i) <= PctOf(j)) =>
                  TierRank(table_data[i].Status) <= TierRank(table_data[j].Status)

\* a table that shows 79.9 as medium next to 80.0 as high
C4_Witness ==
    /\ shaper = "submissions"
    /\ Len(table_data) = 2
    /\ submissions[1].overall_agreement_pct = JNum(799)
    /\ submissions[2].overall_agreement_pct = JNum(800)
    /\ table_data[1].Status = IndicatorMedium
    /\ table_data[2].Status = IndicatorHigh

\* C5: when the server answers run_inference or get_submission_detail with
\* HTTP 404, the client raises a ValueError that names the submission and the
\* calling page takes its NotFound branch, not the generic failure branch.
C5_NotFoundOn404 ==
    (response.op \in {"run_inference", "get_submission_detail"}
        /\ request.o.t = "http_404") =>
            /\ response.res.kind = "raise"
            /\ response.res.exc.cls = "ValueError"
            /\ response.res.exc.msg[2] = request.arg[1]
            /\ response.signal = "NotFound"

\* run_inference("s9") answered with HTTP 404 has given NotFound
C5_Witness ==
    /\ response.op = "run_inference"
    /\ request.arg = <<"s9">>
    /\ request.o.t = "http_404"
    /\ response.res.exc.cls = "ValueError"
    /\ response.signal = "NotFound"

\* C6: for every failure of run_inference other than HTTP 404 (HTTP 500,
\* connection error, timeout, undecodable body) the caller receives the wrapped
\* "Inference failed: ..." exception, never the raw transport exception.
C6_OtherFailuresAreWrapped ==
    (response.op = "run_inference" /\ request.o.t \notin {"ok", "http_404"}) =>
        /\ response.res.kind = "raise"
        /\ response.res.exc.cls = "Exception"
        /\ response.res.exc.msg[1] = "Inference failed"

\* C7: get_recent_submissions_from_knoxxi never raises; on any failure it
\* returns the empty list, on success the server's submissions in the server's
\* order, or the empty list when the answer has no submissions key.
C7_RecentNeverRaises ==
    response.op = "get_recent_submissions_from_knoxxi" =>
        /\ response.res.kind = "return"
        /\ response.signal = "List"
        /\ response.res.value =
              Set(IF request.o.t = "ok" /\ request.o.v = "a"
                  THEN <<Sub("s1"), Sub("s2")>>
                  ELSE <<>>)

\* a timed out fetch has returned the empty list
C7_Witness ==
    /\ response.op = "get_recent_submissions_from_knoxxi"
    /\ request.o.t = "timeout"
    /\ response.res = Return(<<>>)

\* C8: health_check never raises; on every transport failure the dictionary it
\* returns has status "error" and an error message, and main() takes every
\* outcome as exactly one of Healthy (status = "healthy") and Unhealthy.
C8_HealthNeverRaises ==
    response.op = "health_check" =>
        /\ response.res.kind = "return"
        /\ request.o.t # "ok" =>
              /\ Val(response.res.value).status = Set("error")
              /\ IsSet(Val(response.res.value).error)
        /\ response.signal \in {"Healthy", "Unhealthy"}
        /\ (response.signal = "Healthy") <=> (Val(response.res.value).status = Set("healthy"))

\* an undecodable body has been reported as status "error" and read as Unhealthy
C8_Witness ==
    /\ response.op = "health_check"
    /\ request.o.t = "bad_json"
    /\ Val(response.res.value).status = Set("error")
    /\ response.signal = "Unhealthy"

\* the signals a caller may end up with, per operation
ClosedSignals(op) ==
    CASE op = "health_check" -> {"Healthy", "Unhealthy"}
      [] op = "get_recent_submissions_from_knoxxi" -> {"List"}
      [] OTHER -> {"Ok", "NotFound", "TransientFailure"}

\* C9: for every client operation and every transport outcome the branch the
\* caller takes is in the closed set of the operation, and every exception a
\* client call raises is caught by an `except` clause of the page that called.
C9_NoUnhandledFault ==
    response.op # "none" =>
        /\ response.signal \in ClosedSignals(response.op)
        /\ response.res.kind = "raise" => response.signal \in {"NotFound", "TransientFailure"}

\* the raw HTTPError of an HTTP 500 has been caught by the page's generic clause
C9_Witness ==
    /\ response.op = "run_inference"
    /\ request.o.t = "http_500"
    /\ response.res.kind = "raise"
    /\ response.res.exc.cls = "HTTPError"
    /\ response.signal = "TransientFailure"

\* the data calls of a script run
CallsOf(cs, op) == {i \in 1..Len(cs) : cs[i].op = op}

\* C10: a script run changes last_inference_result only by a successful
\* run_inference, which replaces it by the whole new response, and
\* current_detail only by a successful get_submission_detail, likewise; after
\* a failed run_inference or get_submission_detail the cached value is as
\* before and is what the page shows.
C10_CacheChangesOnlyOnSuccess ==
    [][ /\ \A i \in CallsOf(calls', "run_inference") :
              IF calls'[i].signal = "Ok"
              THEN session_state'.last_inference_result =
                        Set(ServerBody("run_inference", calls'[i].arg[1], "a"))
              ELSE /\ session_state'.last_inference_result = session_state.last_inference_result
                   /\ shown_result' = session_state.last_inference_result
        /\ \A i \in CallsOf(calls', "get_submission_detail") :
              IF calls'[i].signal = "Ok"
              THEN session_state'.current_detail =
                        Set(ServerBody("get_submission_detail", calls'[i].arg[1], "a"))
              ELSE /\ session_state'.current_detail = session_state.current_detail
                   /\ shown_detail' = session_state.current_detail
        /\ CallsOf(calls', "run_inference") = {} =>
              session_state'.last_inference_result = session_state.last_inference_result
        /\ CallsOf(calls', "get_submission_detail") = {} =>
              session_state'.current_detail = session_state.current_detail
      ]_vars

\* a failed inference on s2 has left the result of s1 cached and on screen
C10_Witness ==
    /\ \E i \in CallsOf(calls, "run_inference") :
          calls[i].signal # "Ok" /\ calls[i].arg = <<"s2">>
    /\ IsSet(session_state.last_inference_result)
    /\ Val(session_state.last_inference_result).submission_id = "s1"
    /\ shown_result = session_state.last_inference_result

\* the last script run showed message msg
Shown(msg) == \E k \in 1..Len(messages) : messages[k] = msg

HintRunInferenceFirst == Msg("info", "Try running inference on it first")

\* C11: on the inference page and on the detail page, a call that ends in
\* NotFound makes the page show the hint to run inference on the submission
\* first, and a call that ends in any other failure makes it show the generic
\* error banner without the hint.
C11_NotFoundShowsHint ==
    \A i \in CallsOf(calls, "run_inference") \cup CallsOf(calls, "get_submission_detail") :
        /\ calls[i].signal = "NotFound" => Shown(HintRunInferenceFirst)
        /\ calls[i].signal = "TransientFailure" =>
              Shown(Msg("error", "Error")) /\ ~Shown(HintRunInferenceFirst)

\* C12: a script run whose health check finds the API not healthy invokes no
\* page renderer and makes no call besides the health check.
C12_UnhealthyBlocksPages ==
    health_banner = "API Disconnected" => (rendered = "" /\ Len(calls) = 1)

\* C13: the renders of one user action make at most one outbound HTTP call,
\* the health check counted; here for a single script run, which is part of
\* one user action.
C13_AtMostOneCall ==
    Len(calls) <= 1

\* the call ended in a failure the page reported
Failed(call) == call.signal \in {"NotFound", "TransientFailure"}

\* the button whose press asks for the call
ButtonOf(op) == IF op = "run_inference" THEN "run_inference" ELSE "load_details"

\* C14: when a script run made a run_inference or get_submission_detail call
\* that failed, the next script run makes the same call for the same
\* submission only if the user pressed the button of that call.
C14_NoRetryWithoutButton ==
    [][\A op \in {"run_inference", "get_submission_detail"} :
         \A i \in CallsOf(calls, op) : \A j \in CallsOf(calls', op) :
            (Failed(calls[i]) /\ calls'[j].arg = calls[i].arg) =>
                trigger'.kind = ButtonOf(op)]_vars

\* the list the last row shaping function was given
ShapedInput ==
    IF shaper \in {"submissions", "export_submissions"} THEN submissions ELSE parameters

\* C15: when the submissions table, the detail breakdown or the inference
\* results table is rendered for a list of zero rows, an empty-state message
\* is shown and no table is rendered.
C15_EmptyShowsMessage ==
    (shaper \in {"inference", "detail", "submissions"} /\ Len(ShapedInput) = 0) =>
        (message # "" /\ table_data = <<>>)

\* the parameters of the example: P1 succeeded and agreed with probability
\* 0.812, P2 failed and carries neither agreement nor probability
ExampleParameters ==
    << [name |-> <<"P", 1>>, status |-> "success", agreement |-> JTrue,
        probability |-> JNum(81200)],
       [name |-> <<"P", 2>>, status |-> "error", agreement |-> JAbsent,
        probability |-> JAbsent] >>

\* C16: the detail breakdown of the example shows exactly two rows in input
\* order, row 1 with badge "agree" and probability text "0.812", row 2 with
\* badge "error" and probability text "-".
C16_ExampleRows ==
    (shaper = "detail" /\ parameters = ExampleParameters) =>
        /\ Len(table_data) = 2
        /\ table_data[1].Parameter = <<"P", 1>>
        /\ table_data[1].Agreement = BadgeAgree
        /\ table_data[1].Probability = Fixed(81200, 3)
        /\ table_data[2].Parameter = <<"P", 2>>
        /\ table_data[2].Agreement = BadgeError
        /\ table_data[2].Probability = DashText

\* the number a text cell stands for, in units of 1e-5; -1 if it is no number
NumericValue(text) ==
    CASE text[1] = "fixed" -> text[3] * Pow10(5 - text[2])
      [] text[1] = "repr" -> text[2]
      [] OTHER -> -1

\* the number of decimal places a text cell is written with; -1 if not fixed
Decimals(text) == IF text[1] = "fixed" THEN text[2] ELSE -1

\* C17: for the same parameter, the probability written to the CSV export of
\* the detail page is the number the detail table displays, and the detail
\* table displays probabilities with 3 decimal places.
C17_ExportEqualsScreen ==
    \A i \in 1..Len(table_data) :
        /\ shaper = "export" =>
              NumericValue(table_data[i].Probability)
                  = NumericValue(DetailRow(parameters[i]).Probability)
        /\ shaper = "detail" => Decimals(table_data[i].Probability) = 3

\* the set of the headers
ColumnSet(headers) == {headers[k] : k \in 1..Len(headers)}

\* C18: the CSV export of the detail page has exactly the columns of the
\* detail breakdown table, the CSV export of the overview page exactly those
\* of the submissions table, and each has one CSV row per displayed row.
C18_ExportColumnsMatchScreen ==
    /\ (shaper = "export" /\ Len(parameters) > 0) =>
          /\ ColumnSet(columns) = ColumnSet(DetailTableColumns)
          /\ Len(table_data) = Len(detail_table_data(parameters))
    /\ shaper = "export_submissions" =>
          /\ ColumnSet(columns) = ColumnSet(SubmissionsTableColumns)
          /\ Len(table_data) = Len(submissions_table_data(submissions))

\* the key is sent with value v exactly when sent holds
SentIff(key, sent, v) == key = (IF sent THEN Set(v) ELSE Unset)

\* the four keys every get_submissions request carries, and the passthrough
AlwaysSentAndPassthrough ==
    LET q == request.arg[1]
        sent == response.params
    IN  /\ sent.limit = Set(q.limit)
        /\ sent.offset = Set(q.offset)
        /\ sent.sort_by = Set(q.sort_by)
        /\ sent.sort_order = Set(q.sort_order)
        /\ request.o.t = "ok" =>
              response.res = Return(ServerBody("get_submissions", request.arg[1], request.o.v))

\* C19 (as stated): get_submissions always sends limit, offset, sort_by and
\* sort_order as given, sends each of min_agreement, start_date and end_date
\* if and only if the caller supplied it (a value other than None), and
\* returns the server's response unchanged.
C19_SentIffSupplied ==
    response.op = "get_submissions" =>
        LET q == request.arg[1]
            sent == response.params
        IN  /\ AlwaysSentAndPassthrough
            /\ SentIff(sent.min_agreement, q.min_agreement # JNull, q.min_agreement)
            /\ SentIff(sent.start_date, q.start_date # JNull, q.start_date)
            /\ SentIff(sent.end_date, q.end_date # JNull, q.end_date)

\* C19 (amended): get_submissions always sends limit, offset, sort_by and
\* sort_order as given, sends min_agreement if and only if it is not None (0
\* is sent), sends each of start_date and end_date if and only if it is a
\* non-empty string, and returns the server's response unchanged.
C19_SentIffSuppliedNonEmpty ==
    response.op = "get_submissions" =>
        LET q == request.arg[1]
            sent == response.params
        IN  /\ AlwaysSentAndPassthrough
            /\ SentIff(sent.min_agreement, q.min_agreement # JNull, q.min_agreement)
            /\ SentIff(sent.start_date,
                       q.start_date \notin {JNull, <<"str", "">>}, q.start_date)
            /\ SentIff(sent.end_date,
                       q.end_date \notin {JNull, <<"str", "">>}, q.end_date)

\* a successful call with min_agreement 0 sent, an empty start_date not sent
\* and a proper end_date sent
C19_Witness ==
    /\ response.op = "get_submissions"
    /\ response.res.kind = "return"
    /\ request.arg[1].min_agreement = JNum(0)
    /\ response.params.min_agreement = Set(JNum(0))
    /\ request.arg[1].start_date = <<"str", "">>
    /\ response.params.start_date = Unset
    /\ response.params.end_date = Set(<<"str", "2026-01-01T00:00:00">>)

\* the rows of the Parameter Results table for the result of submission id,
\* written out
ExpectedInferenceRows(id) ==
    CASE id = "s1" ->
            << [Parameter |-> <<"P", 1>>, Agreement |-> BadgeAgree,
                Probability |-> <<"fixed", 3, 812>>],
               [Parameter |-> <<"P", 2>>, Agreement |-> BadgeDash,
                Probability |-> DashText] >>
      [] id = "s2" ->
            << [Parameter |-> <<"P", 1>>, Agreement |-> BadgeDisagree,
                Probability |-> <<"fixed", 3, 812>>] >>
      [] OTHER -> <<>>

\* the rows of the detail breakdown for the detail of submission id, written out
ExpectedDetailRows(id) ==
    CASE id = "s1" ->
            << [Agreement |-> BadgeAgree, Parameter |-> <<"P", 1>>,
                Probability |-> <<"fixed", 4, 8120>>, Background |-> "#d4edda"],
               [Agreement |-> BadgeDisagree, Parameter |-> <<"P", 2>>,
                Probability |-> <<"fixed", 4, 0>>, Background |-> "#f8d7da"] >>
      [] id = "s2" ->
            << [Agreement |-> BadgeDisagree, Parameter |-> <<"P", 1>>,
                Probability |-> <<"fixed", 4, 8120>>, Background |-> "#f8d7da"] >>
      [] OTHER -> <<>>

\* C20: whatever the session state and whatever was rendered before, a render
\* that displays an InferenceResult or a SubmissionDetail shows the rows that
\* belong to that result alone, and leaves the cached result as the server
\* sent it.
C20_RowsDependOnlyOnResult ==
    /\ IsSet(shown_result) =>
          /\ shown_rows = ExpectedInferenceRows(Val(shown_result).submission_id)
          /\ session_state.last_inference_result = shown_result
          /\ Val(shown_result).parameters = ParametersOf(Val(shown_result).submission_id)
    /\ IsSet(shown_detail) =>
          /\ shown_rows = ExpectedDetailRows(Val(shown_detail).submission_id)
          /\ session_state.current_detail = shown_detail
          /\ Val(shown_detail).parameters = ParametersOf(Val(shown_detail).submission_id)

\* the detail of s1 is displayed, with its two rows, in a session that ran
\* inference on s2 and rendered its result before
C20_Witness ==
    /\ IsSet(shown_detail)
    /\ Val(shown_detail).submission_id = "s1"
    /\ Len(shown_rows) = 2
    /\ IsSet(session_state.last_inference_result)
    /\ Val(session_state.last_inference_result).submission_id = "s2"

\* the call failed: the health check by its verdict, a data call by its transport
TransportFailed(call) ==
    IF call.op = "health_check" THEN call.signal # "Healthy" ELSE call.t # "ok"

\* the control that asks for the data call again
RetriggerOf(op) ==
    CASE op = "run_inference" -> "run_inference"
      [] op = "get_submission_detail" -> "load_details"
      [] OTHER -> "select"

\* C21: after a failed health check, recent-submissions fetch, inference or
\* detail fetch no exception escapes the render, a page is rendered, and once
\* the app waits for the user the control that leads to the failed action is
\* offered again (for the recent-submissions fetch: the render that follows
\* offers the selection of a submission or fetches the list again).
C21_StillInteractive ==
    [][/\ ~unhandled'
       /\ (\E i \in 1..Len(calls') : TransportFailed(calls'[i])) => rendered' # ""
       /\ \A i \in CallsOf(calls', "run_inference") \cup CallsOf(calls', "get_submission_detail") :
            (TransportFailed(calls'[i]) /\ ~rerun') => RetriggerOf(calls'[i].op) \in controls'
       /\ \A i \in CallsOf(calls, "get_recent_submissions_from_knoxxi") :
            (TransportFailed(calls[i]) /\ rendered' = PageInference) =>
                \/ RetriggerOf(calls[i].op) \in controls'
                \/ CallsOf(calls', "get_recent_submissions_from_knoxxi") # {}]_vars

\* C22: get_agreement_indicator, as render_submissions_table applies it to the
\* overall_agreement_pct of every submission, returns an indicator for every
\* value, null and missing included, and never raises.
C22_IndicatorNeverRaises ==
    shaper = "submissions" =>
        /\ message # "TypeError"
        /\ Len(table_data) = Len(submissions)
        /\ \A i \in 1..Len(table_data) :
              table_data[i].Status \in {IndicatorHigh, IndicatorMedium, IndicatorLow}

\* C23: run_inference and get_submission_detail give the caller a ValueError,
\* and the page takes its NotFound branch, if and only if the server answered
\* with HTTP 404; an undecodable 2xx body, whose JSONDecodeError is a
\* ValueError, reaches the caller wrapped in a plain Exception.
C23_NotFoundOnlyOn404 ==
    response.op \in {"run_inference", "get_submission_detail"} =>
        /\ (response.res.kind = "raise" /\ Catches("ValueError", response.res.exc))
              <=> request.o.t = "http_404"
        /\ response.signal = "NotFound" <=> request.o.t = "http_404"

\* get_submission_detail on an undecodable body has given the generic failure
C23_Witness ==
    /\ response.op = "get_submission_detail"
    /\ request.o.t = "bad_json"
    /\ response.res.exc.cls = "Exception"
    /\ response.signal = "TransientFailure"

RecentCalls(cs) == CallsOf(cs, "get_recent_submissions_from_knoxxi")

\* C24: a script run fetches the recent submissions at most once; once the
\* list exists in the session state its loading flag is cleared, and no later
\* script run fetches the list, changes it or sets the flag again, also when
\* the list is the empty one a failed fetch left.
C24_RecentFetchedOnce ==
    [][/\ Cardinality(RecentCalls(calls')) <= 1
       /\ IsSet(session_state'.recent_submissions) =>
            session_state'.recent_submissions_loading = Set(FALSE)
       /\ IsSet(session_state.recent_submissions) =>
            /\ RecentCalls(calls') = {}
            /\ session_state'.recent_submissions = session_state.recent_submissions]_vars

\* the inference page is rendered again, on the user's return to it, with the
\* empty list of a failed fetch and without a new fetch
C24_Witness ==
    /\ session_state.recent_submissions = Set(<<>>)
    /\ trigger = TriggerWith("nav", PageInference)
    /\ rendered = PageInference
    /\ RecentCalls(calls) = {}
    /\ Shown(Msg("warning", "No recent submissions available"))

\* the ids of the recent submissions the session holds
RecentIds ==
    IF IsSet(session_state.recent_submissions)
    THEN {Val(session_state.recent_submissions)[k].id :
            k \in 1..Len(Val(session_state.recent_submissions))}
    ELSE {}

DetailCalls(cs) == CallsOf(cs, "get_submission_detail")

\* C25: every run_inference and get_submission_detail call of a script run
\* carries a non-empty id without surrounding whitespace, run_inference the
\* id of one of the recent submissions; a press of Load Details with an empty
\* or blank text shows the input error, and the input error comes with no
\* request.
C25_NoEmptyIdRequested ==
    /\ \A i \in CallsOf(calls, "run_inference") \cup DetailCalls(calls) :
          /\ calls[i].arg[1] # ""
          /\ calls[i].arg[1] \notin {" ", " s1 "}
    /\ \A i \in CallsOf(calls, "run_inference") : calls[i].arg[1] \in RecentIds
    /\ (trigger.kind = "load_details" /\ Val(widget_state.typed).text \in {"", " "}) =>
          Shown(Msg("error", "Please enter a submission ID"))
    /\ Shown(Msg("error", "Please enter a submission ID")) => DetailCalls(calls) = {}
    /\ Shown(Msg("error", "Please select a submission")) => CallsOf(calls, "run_inference") = {}

\* Load Details pressed with the text " s1 " has requested the detail of "s1"
C25_Witness ==
    /\ trigger.kind = "load_details"
    /\ Val(widget_state.typed).text = " s1 "
    /\ \E i \in DetailCalls(calls) : calls[i].arg = <<"s1">>

\* the data calls the renderer of a page makes
OpsOfPage(label) ==
    CASE label = PageInference -> {"get_recent_submissions_from_knoxxi", "run_inference"}
      [] label = PageOverview -> {"get_submissions"}
      [] OTHER -> {"get_submission_detail"}

\* the page a script run started by trig routes to, given the session before it
PageAtRouting(ss, trig) ==
    IF trig.kind = "nav" THEN trig.arg[1]
    ELSE IF IsSet(ss.page) THEN Val(ss.page) ELSE PageInference

\* C28: every script run leaves the session's page value one of the three
\* labels and invokes exactly one page renderer: the one of the label chosen
\* in the sidebar, else of the page value the session held; the data calls of
\* the run are those of that renderer alone; and when the run ends waiting for
\* the user the page value is the rendered page.
C28_OnePageRendered ==
    [][/\ session_state'.page \in {Set(label) : label \in Pages}
       /\ rendered' \in Pages
       /\ rendered' = PageAtRouting(session_state, trigger')
       /\ \A i \in 1..Len(calls') :
            calls'[i].op \in {"health_check"} \cup OpsOfPage(rendered')
       /\ ~rerun' => session_state'.page = Set(rendered')]_vars

\* the Back to Overview button has set the page value, and the run that
\* followed has rendered the overview page
C28_Witness ==
    /\ trigger.kind = "none"
    /\ rendered = PageOverview
    /\ session_state.page = Set(PageOverview)
    /\ IsSet(session_state.current_detail)
    /\ \E i \in 1..Len(calls) : calls[i].op = "get_submissions"

\* C29: a press of a submission button of the overview page or of View
\* Detailed Breakdown sets selected_submission_id (for the latter to the id of
\* the inference result) and the page to Submission Detail; the run that
\* follows requests the detail of exactly that id with no button pressed; a
\* successful load removes selected_submission_id; and while it is absent a
\* run requests a detail only on a press of Load Details.
C29_AutoLoadOnce ==
    [][/\ (trigger'.kind \in {"open_submission", "view_detail"} /\ rerun') =>
            /\ IsSet(session_state'.selected_submission_id)
            /\ session_state'.page = Set(PageDetail)
       /\ (trigger'.kind = "view_detail" /\ rerun') =>
            session_state'.selected_submission_id
                = Set(Val(session_state.last_inference_result).submission_id)
       /\ (rerun /\ trigger.kind \in {"open_submission", "view_detail"}) =>
            /\ trigger' = NoTrigger
            /\ rendered' = PageDetail
            /\ \E i \in DetailCalls(calls') :
                  calls'[i].arg = <<Val(session_state.selected_submission_id)>>
       /\ (\E i \in DetailCalls(calls') : calls'[i].signal = "Ok") =>
            ~IsSet(session_state'.selected_submission_id)
       /\ (~IsSet(session_state.selected_submission_id) /\ trigger'.kind # "load_details") =>
            DetailCalls(calls') = {}]_vars

\* the run after a selection has loaded the detail of s1 by itself and
\* removed the selection
C29_Witness ==
    /\ trigger = NoTrigger
    /\ rendered = PageDetail
    /\ \E i \in DetailCalls(calls) : calls[i].arg = <<"s1">> /\ calls[i].signal = "Ok"
    /\ ~IsSet(session_state.selected_submission_id)
    /\ IsSet(shown_detail)

\* C30: for every parameter list the detail page's summary counts add up to
\* the number of parameters, the Disagreed count is the number of parameters
\* the Disagreements Only tab lists, and the tab shows its all-agreed message
\* only when every parameter has agreement true.
C30_SummaryMatchesDisagreements ==
    /\ (shaper = "detail" /\ Len(parameters) > 0) =>
          summary_counts[1] + summary_counts[2] = Len(parameters)
    /\ shaper = "disagreements" =>
          /\ Len(table_data) = SummaryCounts(parameters)[2]
          /\ message = "Perfect! All parameters agreed with ground truth!" =>
                \A i \in 1..Len(parameters) : IsTrue(GetNone(parameters[i].agreement))

\* ---------------------------------------------------------------- C26
\* the pagination keys of a session state are in range once they exist
PaginationInRange(ss) ==
    /\ IsSet(ss.current_page) => Val(ss.current_page) >= 1
    /\ IsSet(ss.page_size) => Val(ss.page_size) \in PageSizeOptions

\* a pagination object offers a previous page only from a page after the first
HasPrevOnlyAfterFirst(pg) ==
    IsSet(pg) => (GetOr(Val(pg).has_prev, FALSE) => GetOr(Val(pg).current_page, 1) > 1)

\* a pagination object offers a next page only from page 0 or later
HasNextOnlyFromZero(pg) ==
    IsSet(pg) => (GetOr(Val(pg).has_next, FALSE) => GetOr(Val(pg).current_page, 1) >= 0)

GetSubmissionsCalls(cs) == {i \in 1..Len(cs) : cs[i].op = "get_submissions"}

\* what one script run does to the pagination of a session that was in range
PaginationStep ==
    /\ PaginationInRange(session_state')
    /\ \A i \in GetSubmissionsCalls(calls') :
          LET q == calls'[i].arg[1]
              page_size == GetOr(session_state.page_size, 50)
              current_page == GetOr(session_state.current_page, 1)
          IN  /\ q.limit = page_size
              /\ q.offset = (current_page - 1) * page_size
              /\ q.offset >= 0
    /\ session_state'.page_size # session_state.page_size
          => session_state'.current_page = Set(1)
    /\ (trigger'.kind = "reset" /\ rendered' = PageOverview)
          => /\ session_state'.current_page = Set(1)
             /\ session_state'.page_size = session_state.page_size

\* C26 as stated: while the server reports has_prev only when its current_page
\* is greater than 1, every script run keeps current_page >= 1 and page_size
\* among 10, 25, 50, 100, requests limit = page_size and
\* offset = (current_page - 1) * page_size >= 0, goes back to page 1 when the
\* page size changes, and on Reset sets page 1 and keeps the page size.
C26_PaginationInRange ==
    [][(PaginationInRange(session_state) /\ HasPrevOnlyAfterFirst(pagination'))
          => PaginationStep]_vars

\* C26 with the condition on the server completed: the same holds while the
\* server reports has_prev only when its current_page is greater than 1 and
\* has_next only when its current_page is at least 0.
C26_PaginationInRangeGivenNext ==
    [][(/\ PaginationInRange(session_state)
        /\ HasPrevOnlyAfterFirst(pagination')
        /\ HasNextOnlyFromZero(pagination'))
          => PaginationStep]_vars

\* C26: Previous has taken a session with 10 rows per page from page 2 back to
\* page 1
C26_Witness ==
    /\ trigger.kind = "previous"
    /\ rendered = PageOverview
    /\ IsSet(pagination)
    /\ Val(pagination).current_page = Set(2)
    /\ Val(pagination).limit = Set(10)
    /\ session_state.current_page = Set(1)
    /\ session_state.page_size = Set(10)

\* ---------------------------------------------------------------- C27
\* C27: a render of the overview page that st.rerun() started, in which the
\* user changed no widget, does not end in another st.rerun().
C27_NoRerunWithoutInteraction ==
    [][(trigger' = NoTrigger /\ rendered' = PageOverview) => ~rerun']_vars

=============================================================================
